---------------------------- MODULE Spec2Model ----------------------------
(***************************************************************************)
(* Attribute codec of the ICS-04 channel events: the conversions between   *)
(* the typed event attributes and abci::EventAttribute key/value pairs     *)
(* (events/channel_attributes.rs and events/packet_attributes.rs).         *)
(*                                                                         *)
(* Strings and byte buffers are sequences of byte values 0..255; a Rust    *)
(* `String`/`&str` is a byte sequence that is valid UTF-8.  A pair         *)
(* (abci::EventAttribute) is a record [key, value] of byte sequences: the  *)
(* V037 variant is the case where both are valid UTF-8, V034 the general   *)
(* one.                                                                    *)
(***************************************************************************)
EXTENDS Integers, Sequences, FiniteSets, TLC

(***************************************************************************)
(* Attribute Key Registry                                                  *)
(***************************************************************************)
\* "connection_id"
CONNECTION_ID_ATTRIBUTE_KEY == <<99, 111, 110, 110, 101, 99, 116, 105, 111, 110, 95, 105, 100>>
\* "channel_id"
CHANNEL_ID_ATTRIBUTE_KEY == <<99, 104, 97, 110, 110, 101, 108, 95, 105, 100>>
\* "port_id"
PORT_ID_ATTRIBUTE_KEY == <<112, 111, 114, 116, 95, 105, 100>>
\* "counterparty_channel_id"
COUNTERPARTY_CHANNEL_ID_ATTRIBUTE_KEY == <<99, 111, 117, 110, 116, 101, 114, 112, 97, 114, 116, 121, 95, 99, 104, 97, 110, 110, 101, 108, 95, 105, 100>>
\* "counterparty_port_id"
COUNTERPARTY_PORT_ID_ATTRIBUTE_KEY == <<99, 111, 117, 110, 116, 101, 114, 112, 97, 114, 116, 121, 95, 112, 111, 114, 116, 95, 105, 100>>
\* "version"
VERSION_ATTRIBUTE_KEY == <<118, 101, 114, 115, 105, 111, 110>>
\* "packet_sequence"
PKT_SEQ_ATTRIBUTE_KEY == <<112, 97, 99, 107, 101, 116, 95, 115, 101, 113, 117, 101, 110, 99, 101>>
\* "packet_data"
PKT_DATA_ATTRIBUTE_KEY == <<112, 97, 99, 107, 101, 116, 95, 100, 97, 116, 97>>
\* "packet_data_hex"
PKT_DATA_HEX_ATTRIBUTE_KEY == <<112, 97, 99, 107, 101, 116, 95, 100, 97, 116, 97, 95, 104, 101, 120>>
\* "packet_src_port"
PKT_SRC_PORT_ATTRIBUTE_KEY == <<112, 97, 99, 107, 101, 116, 95, 115, 114, 99, 95, 112, 111, 114, 116>>
\* "packet_src_channel"
PKT_SRC_CHANNEL_ATTRIBUTE_KEY == <<112, 97, 99, 107, 101, 116, 95, 115, 114, 99, 95, 99, 104, 97, 110, 110, 101, 108>>
\* "packet_dst_port"
PKT_DST_PORT_ATTRIBUTE_KEY == <<112, 97, 99, 107, 101, 116, 95, 100, 115, 116, 95, 112, 111, 114, 116>>
\* "packet_dst_channel"
PKT_DST_CHANNEL_ATTRIBUTE_KEY == <<112, 97, 99, 107, 101, 116, 95, 100, 115, 116, 95, 99, 104, 97, 110, 110, 101, 108>>
\* "packet_channel_ordering"
PKT_CHANNEL_ORDERING_ATTRIBUTE_KEY == <<112, 97, 99, 107, 101, 116, 95, 99, 104, 97, 110, 110, 101, 108, 95, 111, 114, 100, 101, 114, 105, 110, 103>>
\* "packet_timeout_height"
PKT_TIMEOUT_HEIGHT_ATTRIBUTE_KEY == <<112, 97, 99, 107, 101, 116, 95, 116, 105, 109, 101, 111, 117, 116, 95, 104, 101, 105, 103, 104, 116>>
\* "packet_timeout_timestamp"
PKT_TIMEOUT_TIMESTAMP_ATTRIBUTE_KEY == <<112, 97, 99, 107, 101, 116, 95, 116, 105, 109, 101, 111, 117, 116, 95, 116, 105, 109, 101, 115, 116, 97, 109, 112>>
\* "packet_ack"
PKT_ACK_ATTRIBUTE_KEY == <<112, 97, 99, 107, 101, 116, 95, 97, 99, 107>>
\* "packet_ack_hex"
PKT_ACK_HEX_ATTRIBUTE_KEY == <<112, 97, 99, 107, 101, 116, 95, 97, 99, 107, 95, 104, 101, 120>>
\* "packet_connection"
PKT_CONNECTION_ID_ATTRIBUTE_KEY == <<112, 97, 99, 107, 101, 116, 95, 99, 111, 110, 110, 101, 99, 116, 105, 111, 110>>

(***************************************************************************)
(* Results and the error taxonomy (ChannelError)                           *)
(***************************************************************************)
Ok(v) == [ok |-> TRUE, val |-> v]
Err(e) == [ok |-> FALSE, err |-> e]

InvalidAttributeKey(k) == [kind |-> "InvalidAttributeKey", attribute_key |-> k]
InvalidAttributeValue(v) == [kind |-> "InvalidAttributeValue", attribute_value |-> v]
InvalidAttributeCount(e, a) == [kind |-> "InvalidAttributeCount", expected |-> e, actual |-> a]
NonUtf8PacketData == [kind |-> "NonUtf8PacketData"]
MismatchedPacketData == [kind |-> "MismatchedPacketData"]
\* `?` on a domain parser's own error: ChannelError::from(e), none of the
\* variants above.
FromParseError(e) == [kind |-> "From", source |-> e]

\* String::new()
EmptyString == <<>>

(***************************************************************************)
(* Text: str::from_utf8                                                    *)
(***************************************************************************)
IsCont(b) == b >= 128 /\ b <= 191

\* Number of bytes of the well-formed UTF-8 scalar that starts at s[i], or 0
\* when none does (Unicode table 3-7, as core::str::from_utf8 validates).
Utf8Width(s, i) ==
    LET n == Len(s)
        b0 == s[i]
        c(k) == i + k <= n /\ IsCont(s[i + k])
    IN  IF b0 <= 127 THEN 1
        ELSE IF b0 >= 194 /\ b0 <= 223 THEN (IF c(1) THEN 2 ELSE 0)
        ELSE IF b0 = 224
            THEN (IF i + 1 <= n /\ s[i + 1] >= 160 /\ s[i + 1] <= 191 /\ c(2) THEN 3 ELSE 0)
        ELSE IF (b0 >= 225 /\ b0 <= 236) \/ b0 = 238 \/ b0 = 239
            THEN (IF c(1) /\ c(2) THEN 3 ELSE 0)
        ELSE IF b0 = 237
            THEN (IF i + 1 <= n /\ s[i + 1] >= 128 /\ s[i + 1] <= 159 /\ c(2) THEN 3 ELSE 0)
        ELSE IF b0 = 240
            THEN (IF i + 1 <= n /\ s[i + 1] >= 144 /\ s[i + 1] <= 191 /\ c(2) /\ c(3) THEN 4 ELSE 0)
        ELSE IF b0 >= 241 /\ b0 <= 243
            THEN (IF c(1) /\ c(2) /\ c(3) THEN 4 ELSE 0)
        ELSE IF b0 = 244
            THEN (IF i + 1 <= n /\ s[i + 1] >= 128 /\ s[i + 1] <= 143 /\ c(2) /\ c(3) THEN 4 ELSE 0)
        ELSE 0

RECURSIVE Utf8From(_, _)
Utf8From(s, i) ==
    IF i > Len(s) THEN TRUE
    ELSE LET w == Utf8Width(s, i)
         IN  IF w = 0 THEN FALSE ELSE Utf8From(s, i + w)

\* str::from_utf8(bytes).is_ok()
IsUtf8(s) == Utf8From(s, 1)

\* str::from_utf8: the same bytes as text, or an error.
from_utf8(s) == IF IsUtf8(s) THEN Ok(s) ELSE Err("Utf8Error")

\* abci::EventAttribute accessors.
key_str(attr) == from_utf8(attr.key)
value_str(attr) == from_utf8(attr.value)
key_bytes(attr) == attr.key
value_bytes(attr) == attr.value

\* (key, value).into(): the pair built from two strings.
EventAttribute(k, v) == [key |-> k, value |-> v]


(***************************************************************************)
(* subtle_encoding::hex (lower case)                                       *)
(***************************************************************************)
\* One nibble as a lower-case hex digit.
HexDigit(n) == IF n < 10 THEN 48 + n ELSE 87 + n

\* hex::encode: two lower-case digits per byte.
RECURSIVE hex_encode(_)
hex_encode(b) ==
    IF b = <<>> THEN <<>>
    ELSE <<HexDigit(Head(b) \div 16), HexDigit(Head(b) % 16)>> \o hex_encode(Tail(b))

\* The value of a lower-case hex digit, or -1 for any other byte.
HexValue(c) ==
    IF c >= 48 /\ c <= 57 THEN c - 48
    ELSE IF c >= 97 /\ c <= 102 THEN c - 87
    ELSE -1

RECURSIVE HexDecodeFrom(_, _)
HexDecodeFrom(s, i) ==
    IF i > Len(s) THEN <<>>
    ELSE <<HexValue(s[i]) * 16 + HexValue(s[i + 1])>> \o HexDecodeFrom(s, i + 2)

\* hex::decode: fails on an odd length and on any byte that is not a
\* lower-case hex digit.
hex_decode(s) ==
    IF Len(s) % 2 # 0 THEN Err("LengthInvalid")
    ELSE IF \E i \in 1..Len(s) : HexValue(s[i]) < 0 THEN Err("EncodingInvalid")
    ELSE Ok(HexDecodeFrom(s, 1))

(***************************************************************************)
(* Decimal text of unsigned integers: u64's Display and FromStr            *)
(***************************************************************************)
RECURSIVE to_string(_)
to_string(n) ==
    IF n < 10 THEN <<48 + n>> ELSE to_string(n \div 10) \o <<48 + (n % 10)>>

IsDigit(c) == c >= 48 /\ c <= 57

RECURSIVE DigitsValue(_, _)
DigitsValue(s, acc) ==
    IF s = <<>> THEN acc ELSE DigitsValue(Tail(s), acc * 10 + (Head(s) - 48))

\* u64::MAX as decimal text, "18446744073709551615".
U64MaxText ==
    <<49, 56, 52, 52, 54, 55, 52, 52, 48, 55, 51, 55, 48, 57, 53, 53, 49, 54, 49, 53>>

RECURSIVE StripZeros(_)
StripZeros(d) ==
    IF d # <<>> /\ Head(d) = 48 THEN StripZeros(Tail(d)) ELSE d

\* The digits denote a number above u64::MAX (the PosOverflow failure of
\* str::parse::<u64>), decided on the text so that no wide arithmetic is needed.
ExceedsU64(d) ==
    LET z == StripZeros(d)
    IN  \/ Len(z) > Len(U64MaxText)
        \/ /\ Len(z) = Len(U64MaxText)
           /\ \E i \in 1..Len(z) :
                  /\ z[i] > U64MaxText[i]
                  /\ \A j \in 1..(i - 1) : z[j] = U64MaxText[j]

\* str::parse::<u64>: an optional '+', then one or more decimal digits whose
\* value fits in 64 bits.
parse_u64(s) ==
    LET d == IF s # <<>> /\ Head(s) = 43 THEN Tail(s) ELSE s
    IN  IF d = <<>> \/ \E i \in 1..Len(d) : ~IsDigit(d[i])
        THEN Err("ParseIntError")
        ELSE IF ExceedsU64(d) THEN Err("ParseIntError")
        ELSE Ok(DigitsValue(d, 0))

(***************************************************************************)
(* Domain types wrapped by the attributes.  They live in other crates      *)
(* (ibc-core-host-types, ibc-core-client-types, ibc-primitives and the     *)
(* channel types); what is modelled is their string parse/format contract. *)
(***************************************************************************)
\* ICS-24 identifier characters: alphanumerics and . _ + - # [ ] < >
IsIdChar(c) ==
    \/ (c >= 48 /\ c <= 57) \/ (c >= 65 /\ c <= 90) \/ (c >= 97 /\ c <= 122)
    \/ c \in {46, 95, 43, 45, 35, 91, 93, 60, 62}

ValidIdentifier(s, min, max) ==
    /\ Len(s) >= min
    /\ Len(s) <= max
    /\ \A i \in 1..Len(s) : IsIdChar(s[i])

\* PortId::from_str / PortId::as_str
PortId_from_str(s) == IF ValidIdentifier(s, 2, 128) THEN Ok(s) ELSE Err("IdentifierError")
PortId_as_str(id) == id

\* ChannelId::from_str / ChannelId::as_str
ChannelId_from_str(s) == IF ValidIdentifier(s, 8, 64) THEN Ok(s) ELSE Err("IdentifierError")
ChannelId_as_str(id) == id

\* ConnectionId::as_str
ConnectionId_from_str(s) == IF ValidIdentifier(s, 10, 64) THEN Ok(s) ELSE Err("IdentifierError")
ConnectionId_as_str(id) == id

\* Version::from_str accepts every string; Version::as_str returns it.
Version_from_str(s) == Ok(s)
Version_as_str(v) == v

\* Sequence: a u64 with its decimal Display and FromStr.
Sequence_from_str(s) == parse_u64(s)
Sequence_to_string(n) == to_string(n)

\* Order: an enum with a fixed string vocabulary.
Order_as_str(o) ==
    CASE o = "None" -> <<79, 82, 68, 69, 82, 95, 78, 79, 78, 69, 95, 85, 78, 83, 80, 69, 67, 73, 70, 73, 69, 68>>
      [] o = "Unordered" -> <<79, 82, 68, 69, 82, 95, 85, 78, 79, 82, 68, 69, 82, 69, 68>>
      [] o = "Ordered" -> <<79, 82, 68, 69, 82, 95, 79, 82, 68, 69, 82, 69, 68>>

Orders == {"None", "Unordered", "Ordered"}

Order_from_str(s) ==
    IF \E o \in Orders : Order_as_str(o) = s
    THEN Ok(CHOOSE o \in Orders : Order_as_str(o) = s)
    ELSE Err("UnknownOrderType")

\* Height: "revision-height", two unsigned decimals around the first '-'.
Height(n, h) == [revision_number |-> n, revision_height |-> h]
Height_to_string(h) == to_string(h.revision_number) \o <<45>> \o to_string(h.revision_height)

Height_from_str(s) ==
    IF ~\E i \in 1..Len(s) : s[i] = 45 THEN Err("HeightError")
    ELSE LET i == CHOOSE j \in 1..Len(s) : s[j] = 45 /\ \A k \in 1..(j - 1) : s[k] # 45
             n == parse_u64(SubSeq(s, 1, i - 1))
             h == parse_u64(SubSeq(s, i + 1, Len(s)))
         IN  IF n.ok /\ h.ok THEN Ok(Height(n.val, h.val)) ELSE Err("HeightError")

\* TimeoutHeight: the sum type {Never, At(height)}.
Never == [tag |-> "Never"]
At(h) == [tag |-> "At", height |-> h]

\* TimeoutHeight::from(height): the zero-revision/zero-height form is Never,
\* every other height is At(height).
TimeoutHeight_from(h) ==
    IF h.revision_number = 0 /\ h.revision_height = 0 THEN Never ELSE At(h)

\* Timestamp: a nanosecond count.  from_nanoseconds rejects counts outside
\* the representable range, which lies beyond the integers explored.
Timestamp_from_nanoseconds(n) == IF n >= 0 THEN Ok(n) ELSE Err("TimestampError")
Timestamp_nanoseconds(t) == t

(***************************************************************************)
(* The typed attributes                                                    *)
(***************************************************************************)
PortIdAttribute(port_id) == [type |-> "PortIdAttribute", port_id |-> port_id]
ChannelIdAttribute(channel_id) == [type |-> "ChannelIdAttribute", channel_id |-> channel_id]
CounterpartyPortIdAttribute(counterparty_port_id) ==
    [type |-> "CounterpartyPortIdAttribute", counterparty_port_id |-> counterparty_port_id]
CounterpartyChannelIdAttribute(counterparty_channel_id) ==
    [type |-> "CounterpartyChannelIdAttribute", counterparty_channel_id |-> counterparty_channel_id]
ConnectionIdAttribute(connection_id) == [type |-> "ConnectionIdAttribute", connection_id |-> connection_id]
VersionAttribute(version) == [type |-> "VersionAttribute", version |-> version]
PacketDataAttribute(packet_data) == [type |-> "PacketDataAttribute", packet_data |-> packet_data]
TimeoutHeightAttribute(timeout_height) == [type |-> "TimeoutHeightAttribute", timeout_height |-> timeout_height]
TimeoutTimestampAttribute(timeout_timestamp) ==
    [type |-> "TimeoutTimestampAttribute", timeout_timestamp |-> timeout_timestamp]
SequenceAttribute(sequence) == [type |-> "SequenceAttribute", sequence |-> sequence]
SrcPortIdAttribute(src_port_id) == [type |-> "SrcPortIdAttribute", src_port_id |-> src_port_id]
SrcChannelIdAttribute(src_channel_id) == [type |-> "SrcChannelIdAttribute", src_channel_id |-> src_channel_id]
DstPortIdAttribute(dst_port_id) == [type |-> "DstPortIdAttribute", dst_port_id |-> dst_port_id]
DstChannelIdAttribute(dst_channel_id) == [type |-> "DstChannelIdAttribute", dst_channel_id |-> dst_channel_id]
ChannelOrderingAttribute(order) == [type |-> "ChannelOrderingAttribute", order |-> order]
PacketConnectionIdAttribute(connection_id) ==
    [type |-> "PacketConnectionIdAttribute", connection_id |-> connection_id]
AcknowledgementAttribute(acknowledgement) ==
    [type |-> "AcknowledgementAttribute", acknowledgement |-> acknowledgement]

(***************************************************************************)
(* Scalar attributes: From<XAttribute> for abci::EventAttribute            *)
(***************************************************************************)
PortIdAttribute_into(attr) == EventAttribute(PORT_ID_ATTRIBUTE_KEY, PortId_as_str(attr.port_id))
C1_Mutant_ChannelIdAttribute_into(attr) ==
    EventAttribute(COUNTERPARTY_CHANNEL_ID_ATTRIBUTE_KEY, ChannelId_as_str(attr.channel_id))

ChannelIdAttribute_into(attr) == EventAttribute(CHANNEL_ID_ATTRIBUTE_KEY, ChannelId_as_str(attr.channel_id))
C8_Mutant_CounterpartyPortIdAttribute_into(attr) ==
    EventAttribute(PORT_ID_ATTRIBUTE_KEY, PortId_as_str(attr.counterparty_port_id))

CounterpartyPortIdAttribute_into(attr) ==
    EventAttribute(COUNTERPARTY_PORT_ID_ATTRIBUTE_KEY, PortId_as_str(attr.counterparty_port_id))
CounterpartyChannelIdAttribute_into(attr) ==
    EventAttribute(COUNTERPARTY_CHANNEL_ID_ATTRIBUTE_KEY, ChannelId_as_str(attr.counterparty_channel_id))
ConnectionIdAttribute_into(attr) ==
    EventAttribute(CONNECTION_ID_ATTRIBUTE_KEY, ConnectionId_as_str(attr.connection_id))
VersionAttribute_into(attr) == EventAttribute(VERSION_ATTRIBUTE_KEY, Version_as_str(attr.version))
C6_Mutant_TimeoutHeightAttribute_into(attr) ==
    IF attr.timeout_height.tag = "Never"
    THEN EventAttribute(PKT_TIMEOUT_HEIGHT_ATTRIBUTE_KEY, <<48>>)
    ELSE EventAttribute(PKT_TIMEOUT_HEIGHT_ATTRIBUTE_KEY, Height_to_string(attr.timeout_height.height))

TimeoutHeightAttribute_into(attr) ==
    IF attr.timeout_height.tag = "Never"
    THEN EventAttribute(PKT_TIMEOUT_HEIGHT_ATTRIBUTE_KEY, <<48, 45, 48>>)
    ELSE EventAttribute(PKT_TIMEOUT_HEIGHT_ATTRIBUTE_KEY, Height_to_string(attr.timeout_height.height))
TimeoutTimestampAttribute_into(attr) ==
    EventAttribute(PKT_TIMEOUT_TIMESTAMP_ATTRIBUTE_KEY,
                   to_string(Timestamp_nanoseconds(attr.timeout_timestamp)))
SequenceAttribute_into(attr) == EventAttribute(PKT_SEQ_ATTRIBUTE_KEY, Sequence_to_string(attr.sequence))
SrcPortIdAttribute_into(attr) == EventAttribute(PKT_SRC_PORT_ATTRIBUTE_KEY, PortId_as_str(attr.src_port_id))
SrcChannelIdAttribute_into(attr) ==
    EventAttribute(PKT_SRC_CHANNEL_ATTRIBUTE_KEY, ChannelId_as_str(attr.src_channel_id))
DstPortIdAttribute_into(attr) == EventAttribute(PKT_DST_PORT_ATTRIBUTE_KEY, PortId_as_str(attr.dst_port_id))
DstChannelIdAttribute_into(attr) ==
    EventAttribute(PKT_DST_CHANNEL_ATTRIBUTE_KEY, ChannelId_as_str(attr.dst_channel_id))
ChannelOrderingAttribute_into(attr) ==
    EventAttribute(PKT_CHANNEL_ORDERING_ATTRIBUTE_KEY, Order_as_str(attr.order))
PacketConnectionIdAttribute_into(attr) ==
    EventAttribute(PKT_CONNECTION_ID_ATTRIBUTE_KEY, ConnectionId_as_str(attr.connection_id))

(***************************************************************************)
(* Scalar attributes: TryFrom<abci::EventAttribute> for XAttribute         *)
(***************************************************************************)
\* The key check every scalar decoder opens with: Ok(key) when the key is
\* text equal to the expected literal, otherwise the InvalidAttributeKey
\* error the decoder returns.
C2_Mutant_CheckKey(value, expected) ==
    LET k == key_str(value)
    IN  IF k.ok
        THEN IF k.val # expected
             THEN Err(InvalidAttributeKey(expected))
             ELSE Ok(k.val)
        ELSE Err(InvalidAttributeKey(EmptyString))

CheckKey(value, expected) ==
    LET k == key_str(value)
    IN  IF k.ok
        THEN IF k.val # expected
             THEN Err(InvalidAttributeKey(k.val))
             ELSE Ok(k.val)
        ELSE Err(InvalidAttributeKey(EmptyString))

\* The value part every scalar decoder closes with is written out in each:
\* value.value_str() failing gives InvalidAttributeValue with the empty
\* string, the domain parser failing gives InvalidAttributeValue with the
\* value text.

\* The port id decoder passes the parser's error on with `?`.
PortIdAttribute_try_from(value) ==
    LET k == CheckKey(value, PORT_ID_ATTRIBUTE_KEY)
        v == value_str(value)
        port_id == PortId_from_str(v.val)
    IN  IF ~k.ok THEN k
        ELSE IF ~v.ok THEN Err(InvalidAttributeValue(EmptyString))
        ELSE IF ~port_id.ok THEN Err(FromParseError(port_id.err))
        ELSE Ok(PortIdAttribute(port_id.val))

ChannelIdAttribute_try_from(value) ==
    LET k == CheckKey(value, CHANNEL_ID_ATTRIBUTE_KEY)
        v == value_str(value)
        channel_id == ChannelId_from_str(v.val)
    IN  IF ~k.ok THEN k
        ELSE IF ~v.ok THEN Err(InvalidAttributeValue(EmptyString))
        ELSE IF ~channel_id.ok THEN Err(InvalidAttributeValue(v.val))
        ELSE Ok(ChannelIdAttribute(channel_id.val))

CounterpartyPortIdAttribute_try_from(value) ==
    LET k == CheckKey(value, COUNTERPARTY_PORT_ID_ATTRIBUTE_KEY)
        v == value_str(value)
        counterparty_port_id == PortId_from_str(v.val)
    IN  IF ~k.ok THEN k
        ELSE IF ~v.ok THEN Err(InvalidAttributeValue(EmptyString))
        ELSE IF ~counterparty_port_id.ok THEN Err(InvalidAttributeValue(v.val))
        ELSE Ok(CounterpartyPortIdAttribute(counterparty_port_id.val))

CounterpartyChannelIdAttribute_try_from(value) ==
    LET k == CheckKey(value, COUNTERPARTY_CHANNEL_ID_ATTRIBUTE_KEY)
        v == value_str(value)
        counterparty_channel_id == ChannelId_from_str(v.val)
    IN  IF ~k.ok THEN k
        ELSE IF ~v.ok THEN Err(InvalidAttributeValue(EmptyString))
        ELSE IF ~counterparty_channel_id.ok THEN Err(InvalidAttributeValue(v.val))
        ELSE Ok(CounterpartyChannelIdAttribute(counterparty_channel_id.val))

VersionAttribute_try_from(value) ==
    LET k == CheckKey(value, VERSION_ATTRIBUTE_KEY)
        v == value_str(value)
        version == Version_from_str(v.val)
    IN  IF ~k.ok THEN k
        ELSE IF ~v.ok THEN Err(InvalidAttributeValue(EmptyString))
        ELSE IF ~version.ok THEN Err(InvalidAttributeValue(v.val))
        ELSE Ok(VersionAttribute(version.val))

C12_Mutant_TimeoutHeightAttribute_try_from(value) ==
    LET k == CheckKey(value, PKT_TIMEOUT_HEIGHT_ATTRIBUTE_KEY)
        v == value_str(value)
        height == Height_from_str(v.val)
    IN  IF ~k.ok THEN k
        ELSE IF ~v.ok THEN Err(InvalidAttributeValue(EmptyString))
        ELSE IF ~height.ok THEN Err(InvalidAttributeValue(v.val))
        ELSE IF height.val.revision_number = 0 THEN Ok(TimeoutHeightAttribute(Never))
        ELSE Ok(TimeoutHeightAttribute(At(height.val)))

\* Height::from_str, then TimeoutHeight::from(height).
TimeoutHeightAttribute_try_from(value) ==
    LET k == CheckKey(value, PKT_TIMEOUT_HEIGHT_ATTRIBUTE_KEY)
        v == value_str(value)
        height == Height_from_str(v.val)
    IN  IF ~k.ok THEN k
        ELSE IF ~v.ok THEN Err(InvalidAttributeValue(EmptyString))
        ELSE IF ~height.ok THEN Err(InvalidAttributeValue(v.val))
        ELSE Ok(TimeoutHeightAttribute(TimeoutHeight_from(height.val)))

C11_Mutant_TimeoutTimestampAttribute_try_from(value) ==
    LET k == CheckKey(value, PKT_TIMEOUT_TIMESTAMP_ATTRIBUTE_KEY)
        v == value_str(value)
        nanos == parse_u64(v.val)
    IN  IF ~k.ok THEN k
        ELSE IF ~v.ok THEN Err(InvalidAttributeValue(EmptyString))
        ELSE IF ~nanos.ok THEN Err(InvalidAttributeValue(EmptyString))
        ELSE Ok(TimeoutTimestampAttribute(nanos.val))

\* value.parse(), then Timestamp::from_nanoseconds(nanos).
TimeoutTimestampAttribute_try_from(value) ==
    LET k == CheckKey(value, PKT_TIMEOUT_TIMESTAMP_ATTRIBUTE_KEY)
        v == value_str(value)
        nanos == parse_u64(v.val)
        timeout_timestamp == Timestamp_from_nanoseconds(nanos.val)
    IN  IF ~k.ok THEN k
        ELSE IF ~v.ok THEN Err(InvalidAttributeValue(EmptyString))
        ELSE IF ~nanos.ok THEN Err(InvalidAttributeValue(v.val))
        ELSE IF ~timeout_timestamp.ok THEN Err(InvalidAttributeValue(v.val))
        ELSE Ok(TimeoutTimestampAttribute(timeout_timestamp.val))

SequenceAttribute_try_from(value) ==
    LET k == CheckKey(value, PKT_SEQ_ATTRIBUTE_KEY)
        v == value_str(value)
        sequence == Sequence_from_str(v.val)
    IN  IF ~k.ok THEN k
        ELSE IF ~v.ok THEN Err(InvalidAttributeValue(EmptyString))
        ELSE IF ~sequence.ok THEN Err(InvalidAttributeValue(v.val))
        ELSE Ok(SequenceAttribute(sequence.val))

SrcPortIdAttribute_try_from(value) ==
    LET k == CheckKey(value, PKT_SRC_PORT_ATTRIBUTE_KEY)
        v == value_str(value)
        port_id == PortId_from_str(v.val)
    IN  IF ~k.ok THEN k
        ELSE IF ~v.ok THEN Err(InvalidAttributeValue(EmptyString))
        ELSE IF ~port_id.ok THEN Err(InvalidAttributeValue(v.val))
        ELSE Ok(SrcPortIdAttribute(port_id.val))

SrcChannelIdAttribute_try_from(value) ==
    LET k == CheckKey(value, PKT_SRC_CHANNEL_ATTRIBUTE_KEY)
        v == value_str(value)
        src_channel_id == ChannelId_from_str(v.val)
    IN  IF ~k.ok THEN k
        ELSE IF ~v.ok THEN Err(InvalidAttributeValue(EmptyString))
        ELSE IF ~src_channel_id.ok THEN Err(InvalidAttributeValue(v.val))
        ELSE Ok(SrcChannelIdAttribute(src_channel_id.val))

DstPortIdAttribute_try_from(value) ==
    LET k == CheckKey(value, PKT_DST_PORT_ATTRIBUTE_KEY)
        v == value_str(value)
        port_id == PortId_from_str(v.val)
    IN  IF ~k.ok THEN k
        ELSE IF ~v.ok THEN Err(InvalidAttributeValue(EmptyString))
        ELSE IF ~port_id.ok THEN Err(InvalidAttributeValue(v.val))
        ELSE Ok(DstPortIdAttribute(port_id.val))

DstChannelIdAttribute_try_from(value) ==
    LET k == CheckKey(value, PKT_DST_CHANNEL_ATTRIBUTE_KEY)
        v == value_str(value)
        dst_channel_id == ChannelId_from_str(v.val)
    IN  IF ~k.ok THEN k
        ELSE IF ~v.ok THEN Err(InvalidAttributeValue(EmptyString))
        ELSE IF ~dst_channel_id.ok THEN Err(InvalidAttributeValue(v.val))
        ELSE Ok(DstChannelIdAttribute(dst_channel_id.val))

ChannelOrderingAttribute_try_from(value) ==
    LET k == CheckKey(value, PKT_CHANNEL_ORDERING_ATTRIBUTE_KEY)
        v == value_str(value)
        order == Order_from_str(v.val)
    IN  IF ~k.ok THEN k
        ELSE IF ~v.ok THEN Err(InvalidAttributeValue(EmptyString))
        ELSE IF ~order.ok THEN Err(InvalidAttributeValue(v.val))
        ELSE Ok(ChannelOrderingAttribute(order.val))

(***************************************************************************)
(* Composite attributes: packet data and acknowledgement                   *)
(***************************************************************************)
\* .expect(..) on a failed conversion.
Panic == [kind |-> "panic"]

C7_Mutant_PacketDataAttribute_try_into(attr) ==
    LET plain == from_utf8(attr.packet_data)
    IN  IF ~plain.ok THEN Err(NonUtf8PacketData)
        ELSE Ok(<<EventAttribute(PKT_DATA_ATTRIBUTE_KEY, plain.val),
                  EventAttribute(PKT_DATA_HEX_ATTRIBUTE_KEY, plain.val)>>)

\* TryFrom<PacketDataAttribute> for Vec<abci::EventAttribute>: the vec! is
\* built left to right, the plain pair first.
PacketDataAttribute_try_into(attr) ==
    LET plain == from_utf8(attr.packet_data)
        hex == from_utf8(hex_encode(attr.packet_data))
    IN  IF ~plain.ok THEN Err(NonUtf8PacketData)
        ELSE IF ~hex.ok THEN Err(Panic)
        ELSE Ok(<<EventAttribute(PKT_DATA_ATTRIBUTE_KEY, plain.val),
                  EventAttribute(PKT_DATA_HEX_ATTRIBUTE_KEY, hex.val)>>)

\* Option<T>
Some(x) == [some |-> TRUE, val |-> x]
None == [some |-> FALSE]

\* attrs.iter().find(|attr| attr.key_bytes() == key): the first such pair.
Find(attrs, key) ==
    IF \E i \in 1..Len(attrs) : key_bytes(attrs[i]) = key
    THEN Some(attrs[CHOOSE i \in 1..Len(attrs) :
                      /\ key_bytes(attrs[i]) = key
                      /\ \A j \in 1..(i - 1) : key_bytes(attrs[j]) # key])
    ELSE None

\* The packet_data lookup: the value bytes of the first pair with that key.
LookupPacketData(attrs) ==
    LET found == Find(attrs, PKT_DATA_ATTRIBUTE_KEY)
    IN  IF found.some THEN Some(value_bytes(found.val)) ELSE None

\* The packet_data_hex lookup: the value of the first pair with that key as
\* text; a value that is not text counts as no pair at all.
LookupPacketDataHex(attrs) ==
    LET found == Find(attrs, PKT_DATA_HEX_ATTRIBUTE_KEY)
    IN  IF found.some /\ value_str(found.val).ok
        THEN Some(value_str(found.val).val)
        ELSE None

\* The match arm (Some(data), Some(hex)).
C3_Mutant_BothPresent(data, hex) ==
    IF data = hex THEN Ok(PacketDataAttribute(data)) ELSE Err(MismatchedPacketData)

C4_Mutant_BothPresent(data, hex) ==
    LET decoded_hex == hex_decode(hex)
    IN  IF ~decoded_hex.ok THEN Err(InvalidAttributeValue(EmptyString))
        ELSE Ok(PacketDataAttribute(data))

BothPresent(data, hex) ==
    LET decoded_hex == hex_decode(hex)
    IN  IF ~decoded_hex.ok THEN Err(InvalidAttributeValue(EmptyString))
        ELSE IF data = decoded_hex.val
        THEN Ok(PacketDataAttribute(data))
        ELSE Err(MismatchedPacketData)

\* The match arm (Some(data), None).
PlainOnly(data) == Ok(PacketDataAttribute(data))

\* The match arm (None, Some(hex)).
C10_Mutant_HexOnly(hex) == Ok(PacketDataAttribute(hex))

HexOnly(hex) ==
    LET decoded == hex_decode(hex)
    IN  IF ~decoded.ok THEN Err(InvalidAttributeValue(EmptyString))
        ELSE Ok(PacketDataAttribute(decoded.val))

\* The match arm (None, None).
NeitherPresent == Err(InvalidAttributeValue(EmptyString))

C5_Mutant_PacketDataAttribute_try_from(attrs) ==
    LET packet_data == LookupPacketData(attrs)
        packet_data_hex == LookupPacketDataHex(attrs)
    IN  IF Len(attrs) < 2
        THEN Err(InvalidAttributeCount(2, Len(attrs)))
        ELSE IF packet_data.some /\ packet_data_hex.some
        THEN BothPresent(packet_data.val, packet_data_hex.val)
        ELSE IF packet_data.some THEN PlainOnly(packet_data.val)
        ELSE IF packet_data_hex.some THEN HexOnly(packet_data_hex.val)
        ELSE NeitherPresent

C17_Mutant_PacketDataAttribute_try_from(attrs) ==
    LET packet_data == LookupPacketData(attrs)
        packet_data_hex == LookupPacketDataHex(attrs)
    IN  IF Len(attrs) # 2
        THEN Err(InvalidAttributeCount(2, Len(attrs)))
        ELSE IF \E i \in 1..2 :
                    key_bytes(attrs[i]) \notin {PKT_DATA_ATTRIBUTE_KEY, PKT_DATA_HEX_ATTRIBUTE_KEY}
        THEN Err(InvalidAttributeKey(EmptyString))
        ELSE IF packet_data.some /\ packet_data_hex.some
        THEN BothPresent(packet_data.val, packet_data_hex.val)
        ELSE IF packet_data.some THEN PlainOnly(packet_data.val)
        ELSE IF packet_data_hex.some THEN HexOnly(packet_data_hex.val)
        ELSE NeitherPresent

\* TryFrom<Vec<abci::EventAttribute>> for PacketDataAttribute: the count
\* check, the two lookups, then the match on what they found.
PacketDataAttribute_try_from(attrs) ==
    LET packet_data == LookupPacketData(attrs)
        packet_data_hex == LookupPacketDataHex(attrs)
    IN  IF Len(attrs) # 2
        THEN Err(InvalidAttributeCount(2, Len(attrs)))
        ELSE IF packet_data.some /\ packet_data_hex.some
        THEN BothPresent(packet_data.val, packet_data_hex.val)
        ELSE IF packet_data.some THEN PlainOnly(packet_data.val)
        ELSE IF packet_data_hex.some THEN HexOnly(packet_data_hex.val)
        ELSE NeitherPresent

\* Acknowledgement::as_bytes: the acknowledgement's raw bytes.
Acknowledgement_as_bytes(acknowledgement) == acknowledgement

C13_Mutant_AcknowledgementAttribute_try_into(attr) ==
    LET plain == from_utf8(Acknowledgement_as_bytes(attr.acknowledgement))
        hex == from_utf8(hex_encode(Acknowledgement_as_bytes(attr.acknowledgement)))
    IN  IF ~hex.ok THEN Err(Panic)
        ELSE IF ~plain.ok THEN Ok(<<EventAttribute(PKT_ACK_HEX_ATTRIBUTE_KEY, hex.val)>>)
        ELSE Ok(<<EventAttribute(PKT_ACK_HEX_ATTRIBUTE_KEY, hex.val),
                  EventAttribute(PKT_ACK_ATTRIBUTE_KEY, plain.val)>>)

\* TryFrom<AcknowledgementAttribute> for Vec<abci::EventAttribute>
AcknowledgementAttribute_try_into(attr) ==
    LET plain == from_utf8(Acknowledgement_as_bytes(attr.acknowledgement))
        hex == from_utf8(hex_encode(Acknowledgement_as_bytes(attr.acknowledgement)))
    IN  IF ~plain.ok THEN Err(NonUtf8PacketData)
        ELSE IF ~hex.ok THEN Err(Panic)
        ELSE Ok(<<EventAttribute(PKT_ACK_ATTRIBUTE_KEY, plain.val),
                  EventAttribute(PKT_ACK_HEX_ATTRIBUTE_KEY, hex.val)>>)

(***************************************************************************)
(* Dispatch on the attribute type                                          *)
(***************************************************************************)
\* The scalar attribute types that convert into one pair.
ScalarTypes ==
    {"PortIdAttribute", "ChannelIdAttribute", "CounterpartyPortIdAttribute",
     "CounterpartyChannelIdAttribute", "ConnectionIdAttribute", "VersionAttribute",
     "TimeoutHeightAttribute", "TimeoutTimestampAttribute", "SequenceAttribute",
     "SrcPortIdAttribute", "SrcChannelIdAttribute", "DstPortIdAttribute",
     "DstChannelIdAttribute", "ChannelOrderingAttribute", "PacketConnectionIdAttribute"}

\* The scalar attribute types with a TryFrom<abci::EventAttribute>.
DecodableTypes == ScalarTypes \ {"ConnectionIdAttribute", "PacketConnectionIdAttribute"}

\* abci::EventAttribute::from(attr)
Into(attr) ==
    CASE attr.type = "PortIdAttribute" -> PortIdAttribute_into(attr)
      [] attr.type = "ChannelIdAttribute" -> ChannelIdAttribute_into(attr)
      [] attr.type = "CounterpartyPortIdAttribute" -> CounterpartyPortIdAttribute_into(attr)
      [] attr.type = "CounterpartyChannelIdAttribute" -> CounterpartyChannelIdAttribute_into(attr)
      [] attr.type = "ConnectionIdAttribute" -> ConnectionIdAttribute_into(attr)
      [] attr.type = "VersionAttribute" -> VersionAttribute_into(attr)
      [] attr.type = "TimeoutHeightAttribute" -> TimeoutHeightAttribute_into(attr)
      [] attr.type = "TimeoutTimestampAttribute" -> TimeoutTimestampAttribute_into(attr)
      [] attr.type = "SequenceAttribute" -> SequenceAttribute_into(attr)
      [] attr.type = "SrcPortIdAttribute" -> SrcPortIdAttribute_into(attr)
      [] attr.type = "SrcChannelIdAttribute" -> SrcChannelIdAttribute_into(attr)
      [] attr.type = "DstPortIdAttribute" -> DstPortIdAttribute_into(attr)
      [] attr.type = "DstChannelIdAttribute" -> DstChannelIdAttribute_into(attr)
      [] attr.type = "ChannelOrderingAttribute" -> ChannelOrderingAttribute_into(attr)
      [] attr.type = "PacketConnectionIdAttribute" -> PacketConnectionIdAttribute_into(attr)

\* T::try_from(value)
TryFrom(T, value) ==
    CASE T = "PortIdAttribute" -> PortIdAttribute_try_from(value)
      [] T = "ChannelIdAttribute" -> ChannelIdAttribute_try_from(value)
      [] T = "CounterpartyPortIdAttribute" -> CounterpartyPortIdAttribute_try_from(value)
      [] T = "CounterpartyChannelIdAttribute" -> CounterpartyChannelIdAttribute_try_from(value)
      [] T = "VersionAttribute" -> VersionAttribute_try_from(value)
      [] T = "TimeoutHeightAttribute" -> TimeoutHeightAttribute_try_from(value)
      [] T = "TimeoutTimestampAttribute" -> TimeoutTimestampAttribute_try_from(value)
      [] T = "SequenceAttribute" -> SequenceAttribute_try_from(value)
      [] T = "SrcPortIdAttribute" -> SrcPortIdAttribute_try_from(value)
      [] T = "SrcChannelIdAttribute" -> SrcChannelIdAttribute_try_from(value)
      [] T = "DstPortIdAttribute" -> DstPortIdAttribute_try_from(value)
      [] T = "DstChannelIdAttribute" -> DstChannelIdAttribute_try_from(value)
      [] T = "ChannelOrderingAttribute" -> ChannelOrderingAttribute_try_from(value)

(***************************************************************************)
(* Inputs explored                                                         *)
(***************************************************************************)
\* Longest value text of an injected scalar pair.
MaxValLen == 3
\* Largest sequence number, revision number, height and nanosecond count.
MaxNumber == 12
\* Longest packet data / acknowledgement buffer.
MaxDataLen == 2
\* Longest pair list handed to the packet data decoder.
MaxAttrs == 3

\* All byte sequences over `alphabet` of length at most n.
SeqsUpTo(alphabet, n) == UNION {[1..k -> alphabet] : k \in 0..n}

\* '0' '1' '-' 'a' '/' and a byte that is never valid in UTF-8.
ScalarAlphabet == {48, 49, 45, 97, 47, 255}

\* Value texts of wire pairs: short texts, and some canonical forms.
WireValues ==
    SeqsUpTo(ScalarAlphabet, MaxValLen) \cup
    { <<99, 104, 97, 110, 110, 101, 108, 45, 48>>,           \* "channel-0"
      <<116, 114, 97, 110, 115, 102, 101, 114>>,             \* "transfer"
      <<79, 82, 68, 69, 82, 95, 79, 82, 68, 69, 82, 69, 68>>, \* "ORDER_ORDERED"
      <<111, 114, 100, 101, 114, 101, 100>>,                 \* "ordered"
      <<43, 49>>,                                            \* "+1"
      <<49, 56, 52, 52, 54, 55, 52, 52, 48, 55, 51, 55, 48, 57, 53, 53, 49, 54, 49, 54>>, \* 2^64
      <<195, 169>> }                                         \* "e" with acute accent

\* Keys of wire pairs: the registry, and keys outside it.
RegistryKeys ==
    { CONNECTION_ID_ATTRIBUTE_KEY, CHANNEL_ID_ATTRIBUTE_KEY, PORT_ID_ATTRIBUTE_KEY,
      COUNTERPARTY_CHANNEL_ID_ATTRIBUTE_KEY, COUNTERPARTY_PORT_ID_ATTRIBUTE_KEY,
      VERSION_ATTRIBUTE_KEY, PKT_SEQ_ATTRIBUTE_KEY, PKT_DATA_ATTRIBUTE_KEY,
      PKT_DATA_HEX_ATTRIBUTE_KEY, PKT_SRC_PORT_ATTRIBUTE_KEY, PKT_SRC_CHANNEL_ATTRIBUTE_KEY,
      PKT_DST_PORT_ATTRIBUTE_KEY, PKT_DST_CHANNEL_ATTRIBUTE_KEY,
      PKT_CHANNEL_ORDERING_ATTRIBUTE_KEY, PKT_TIMEOUT_HEIGHT_ATTRIBUTE_KEY,
      PKT_TIMEOUT_TIMESTAMP_ATTRIBUTE_KEY, PKT_ACK_ATTRIBUTE_KEY, PKT_ACK_HEX_ATTRIBUTE_KEY,
      PKT_CONNECTION_ID_ATTRIBUTE_KEY }

WireKeys ==
    RegistryKeys \cup
    { <<119, 114, 111, 110, 103, 95, 107, 101, 121>>,  \* "wrong_key"
      <<80, 79, 82, 84, 95, 73, 68>>,                  \* "PORT_ID"
      <<112, 111, 114, 116, 95, 105, 100, 32>>,        \* "port_id "
      <<>>,                                            \* ""
      <<255>>,                                         \* not text
      <<112, 111, 114, 116, 95, 105, 100, 255>> }      \* "port_id" and a byte that is not text

\* The values a domain type can hold are the ones its parser accepts.
PortIds == {s \in WireValues : PortId_from_str(s).ok}
ChannelIds ==
    { <<99, 104, 97, 110, 110, 101, 108, 45, 48>>,     \* "channel-0"
      <<99, 104, 97, 110, 110, 101, 108, 45, 49>> }    \* "channel-1"
ConnectionIds == { <<99, 111, 110, 110, 101, 99, 116, 105, 111, 110, 45, 48>> } \* "connection-0"
Versions == {s \in WireValues : IsUtf8(s)} \cup { <<105, 99, 115, 50, 48, 45, 49>> } \* "ics20-1"
Numbers == 0..MaxNumber
Heights == {Height(n, h) : n \in Numbers, h \in Numbers \ {0}}
TimeoutHeights == {Never} \cup {At(h) : h \in Heights}

ScalarAttributes ==
    {PortIdAttribute(p) : p \in PortIds} \cup
    {ChannelIdAttribute(c) : c \in ChannelIds} \cup
    {CounterpartyPortIdAttribute(p) : p \in PortIds} \cup
    {CounterpartyChannelIdAttribute(c) : c \in ChannelIds} \cup
    {ConnectionIdAttribute(c) : c \in ConnectionIds} \cup
    {VersionAttribute(v) : v \in Versions} \cup
    {TimeoutHeightAttribute(t) : t \in TimeoutHeights} \cup
    {TimeoutTimestampAttribute(t) : t \in Numbers} \cup
    {SequenceAttribute(n) : n \in Numbers} \cup
    {SrcPortIdAttribute(p) : p \in PortIds} \cup
    {SrcChannelIdAttribute(c) : c \in ChannelIds} \cup
    {DstPortIdAttribute(p) : p \in PortIds} \cup
    {DstChannelIdAttribute(c) : c \in ChannelIds} \cup
    {ChannelOrderingAttribute(o) : o \in Orders} \cup
    {PacketConnectionIdAttribute(c) : c \in ConnectionIds}

\* Packet data and acknowledgement buffers: 'h', the two bytes of a
\* two-byte UTF-8 scalar, and a byte that is never valid in UTF-8.
DataBuffers == SeqsUpTo({104, 195, 169, 255}, MaxDataLen)

\* Pairs of the two-pair lists handed to the packet data decoder: the two
\* packet data keys and a foreign key, with plain values, their hex forms
\* and hex values that are malformed (odd length, not a hex digit, upper
\* case, not text).
PacketKeys == {PKT_DATA_ATTRIBUTE_KEY, PKT_DATA_HEX_ATTRIBUTE_KEY, PKT_ACK_ATTRIBUTE_KEY}
PlainValues == SeqsUpTo({104, 255}, MaxDataLen)
PacketValues ==
    PlainValues \cup {hex_encode(b) : b \in PlainValues} \cup
    { <<54>>, <<54, 103>>, <<54, 70>> }                \* "6", "6g", "6F"
PacketPairs == {EventAttribute(k, v) : k \in PacketKeys, v \in PacketValues}
\* Pairs of the lists of any other length.
FewPairs == {EventAttribute(k, v) : k \in PacketKeys, v \in { <<104>>, <<54, 56>> }}

(***************************************************************************)
(* State: one codec call after another.  An attribute is encoded onto the  *)
(* wire, or pairs arrive on the wire from outside; then a decoder reads    *)
(* the wire.                                                               *)
(***************************************************************************)
VARIABLES
    phase,      \* "idle", "encoded", "injected" or "decoded"
    attr,       \* the attribute last encoded, NoAttr when the wire was injected
    encoded,    \* what the encoder returned
    wire,       \* the pairs of the event record
    decoder,    \* the attribute type whose decoder read the wire
    decoded     \* what the decoder returned

vars == <<phase, attr, encoded, wire, decoder, decoded>>

NoAttr == [type |-> "none"]
NoResult == [ok |-> FALSE, err |-> [kind |-> "none"]]

Init ==
    /\ phase = "idle"
    /\ attr = NoAttr
    /\ encoded = NoResult
    /\ wire = <<>>
    /\ decoder = "none"
    /\ decoded = NoResult

\* A scalar attribute is converted into its pair.
EncodeScalar ==
    /\ phase = "idle"
    /\ \E a \in ScalarAttributes :
        /\ attr' = a
        /\ encoded' = Ok(<<Into(a)>>)
        /\ wire' = <<Into(a)>>
    /\ phase' = "encoded"
    /\ UNCHANGED <<decoder, decoded>>

\* A packet data attribute is converted into its pair list, or fails.
EncodePacketData ==
    /\ phase = "idle"
    /\ \E b \in DataBuffers :
        LET r == PacketDataAttribute_try_into(PacketDataAttribute(b))
        IN  /\ attr' = PacketDataAttribute(b)
            /\ encoded' = r
            /\ wire' = IF r.ok THEN r.val ELSE <<>>
    /\ phase' = "encoded"
    /\ UNCHANGED <<decoder, decoded>>

\* An acknowledgement attribute is converted into its pair list, or fails.
EncodeAcknowledgement ==
    /\ phase = "idle"
    /\ \E b \in DataBuffers :
        LET r == AcknowledgementAttribute_try_into(AcknowledgementAttribute(b))
        IN  /\ attr' = AcknowledgementAttribute(b)
            /\ encoded' = r
            /\ wire' = IF r.ok THEN r.val ELSE <<>>
    /\ phase' = "encoded"
    /\ UNCHANGED <<decoder, decoded>>

\* One pair arrives from outside.
InjectPair ==
    /\ phase = "idle"
    /\ \E k \in WireKeys, v \in WireValues : wire' = <<EventAttribute(k, v)>>
    /\ phase' = "injected"
    /\ UNCHANGED <<attr, encoded, decoder, decoded>>

\* A pair list arrives from outside.
InjectList ==
    /\ phase = "idle"
    /\ \E n \in 0..MaxAttrs :
        \E l \in [1..n -> IF n = 2 THEN PacketPairs ELSE FewPairs] : wire' = l
    /\ phase' = "injected"
    /\ UNCHANGED <<attr, encoded, decoder, decoded>>

\* A scalar decoder reads the one pair on the wire.
DecodeScalar ==
    /\ phase \in {"encoded", "injected"}
    /\ Len(wire) = 1
    /\ \E T \in DecodableTypes :
        /\ decoder' = T
        /\ decoded' = TryFrom(T, wire[1])
    /\ phase' = "decoded"
    /\ UNCHANGED <<attr, encoded, wire>>

\* The packet data decoder reads the pair list on the wire.
DecodePacketData ==
    /\ phase \in {"encoded", "injected"}
    /\ decoder' = "PacketDataAttribute"
    /\ decoded' = PacketDataAttribute_try_from(wire)
    /\ phase' = "decoded"
    /\ UNCHANGED <<attr, encoded, wire>>

\* The call is over; nothing is retained.
Reset ==
    /\ phase = "decoded"
    /\ phase' = "idle"
    /\ attr' = NoAttr
    /\ encoded' = NoResult
    /\ wire' = <<>>
    /\ decoder' = "none"
    /\ decoded' = NoResult

Next ==
    \/ EncodeScalar
    \/ EncodePacketData
    \/ EncodeAcknowledgement
    \/ InjectPair
    \/ InjectList
    \/ DecodeScalar
    \/ DecodePacketData
    \/ Reset

Spec == Init /\ [][Next]_vars

(***************************************************************************)
(* Properties                                                              *)
(***************************************************************************)
\* The key each scalar attribute type is registered under.
AttributeKey(T) ==
    CASE T = "PortIdAttribute" -> PORT_ID_ATTRIBUTE_KEY
      [] T = "ChannelIdAttribute" -> CHANNEL_ID_ATTRIBUTE_KEY
      [] T = "CounterpartyPortIdAttribute" -> COUNTERPARTY_PORT_ID_ATTRIBUTE_KEY
      [] T = "CounterpartyChannelIdAttribute" -> COUNTERPARTY_CHANNEL_ID_ATTRIBUTE_KEY
      [] T = "ConnectionIdAttribute" -> CONNECTION_ID_ATTRIBUTE_KEY
      [] T = "VersionAttribute" -> VERSION_ATTRIBUTE_KEY
      [] T = "TimeoutHeightAttribute" -> PKT_TIMEOUT_HEIGHT_ATTRIBUTE_KEY
      [] T = "TimeoutTimestampAttribute" -> PKT_TIMEOUT_TIMESTAMP_ATTRIBUTE_KEY
      [] T = "SequenceAttribute" -> PKT_SEQ_ATTRIBUTE_KEY
      [] T = "SrcPortIdAttribute" -> PKT_SRC_PORT_ATTRIBUTE_KEY
      [] T = "SrcChannelIdAttribute" -> PKT_SRC_CHANNEL_ATTRIBUTE_KEY
      [] T = "DstPortIdAttribute" -> PKT_DST_PORT_ATTRIBUTE_KEY
      [] T = "DstChannelIdAttribute" -> PKT_DST_CHANNEL_ATTRIBUTE_KEY
      [] T = "ChannelOrderingAttribute" -> PKT_CHANNEL_ORDERING_ATTRIBUTE_KEY
      [] T = "PacketConnectionIdAttribute" -> PKT_CONNECTION_ID_ATTRIBUTE_KEY

\* A scalar decoder has read the one pair on the wire.
ScalarDecoded == phase = "decoded" /\ decoder \in DecodableTypes
\* The packet data decoder has read the wire.
PacketDecoded == phase = "decoded" /\ decoder = "PacketDataAttribute"

\* The identifier, version, sequence and ordering attributes that have both
\* conversions.
RoundTripTypes == DecodableTypes \ {"TimeoutHeightAttribute", "TimeoutTimestampAttribute"}

\* C1: for every valid value of an identifier, version, sequence or ordering
\* attribute, decoding the pair that encoding produced, with the decoder of
\* the same attribute type, returns Ok of the attribute that was encoded.
C1_ScalarRoundTrip ==
    (ScalarDecoded /\ attr.type \in RoundTripTypes /\ decoder = attr.type)
        => /\ encoded.ok
           /\ wire = encoded.val
           /\ decoded = Ok(attr)

\* C1 witness: ChannelIdAttribute{"channel-0"} was encoded as
\* ("channel_id", "channel-0") and decoded back.
C1_Witness ==
    /\ ScalarDecoded
    /\ attr = ChannelIdAttribute(<<99, 104, 97, 110, 110, 101, 108, 45, 48>>)
    /\ wire = <<EventAttribute(<<99, 104, 97, 110, 110, 101, 108, 95, 105, 100>>,
                               <<99, 104, 97, 110, 110, 101, 108, 45, 48>>)>>
    /\ decoder = "ChannelIdAttribute"
    /\ decoded = Ok(attr)

\* C2: a scalar decoder given a pair whose key is not exactly its expected
\* literal fails with InvalidAttributeKey whatever the value is; the error
\* carries the key when the key is text and the empty string when it is not.
C2_KeyMismatch ==
    (ScalarDecoded /\ wire[1].key # AttributeKey(decoder))
        => decoded = Err(InvalidAttributeKey(IF IsUtf8(wire[1].key) THEN wire[1].key ELSE <<>>))

\* C2 witness: ("wrong_key", "channel-0") read by the channel id decoder
\* gives InvalidAttributeKey("wrong_key").
C2_Witness ==
    /\ ScalarDecoded
    /\ decoder = "ChannelIdAttribute"
    /\ wire = <<EventAttribute(<<119, 114, 111, 110, 103, 95, 107, 101, 121>>,
                               <<99, 104, 97, 110, 110, 101, 108, 45, 48>>)>>
    /\ decoded = Err(InvalidAttributeKey(<<119, 114, 111, 110, 103, 95, 107, 101, 121>>))

\* C3: for every packet data buffer that is valid UTF-8, the empty one
\* included, decoding the two pairs that encoding produced returns Ok of the
\* same buffer.
C3_PacketDataRoundTrip ==
    (PacketDecoded /\ attr.type = "PacketDataAttribute" /\ IsUtf8(attr.packet_data))
        => /\ encoded.ok
           /\ wire = encoded.val
           /\ Len(wire) = 2
           /\ decoded = Ok(PacketDataAttribute(attr.packet_data))

\* C3 witness: the two-byte text <<195, 169>> went through encode and decode.
C3_Witness ==
    /\ PacketDecoded
    /\ attr = PacketDataAttribute(<<195, 169>>)
    /\ Len(wire) = 2
    /\ decoded = Ok(PacketDataAttribute(<<195, 169>>))

\* Some pair of the list has this key.
HasKey(l, k) == \E i \in 1..Len(l) : l[i].key = k
\* The values of the pairs of the list with this key.
ValuesOf(l, k) == {l[i].value : i \in {j \in 1..Len(l) : l[j].key = k}}
\* The buffers whose lower-case hex form is the text h.
HexSources(h) == {b \in PlainValues \cup DataBuffers : IsUtf8(h) /\ hex_encode(b) = h}

\* C4: when a two-pair list holds a packet_data pair and a packet_data_hex
\* pair and the hex value is the hex form of some buffer b, the decoder
\* returns MismatchedPacketData if b differs from the plain value and Ok of
\* the plain value if they are equal; so it never returns bytes other than b.
C4_PlainAndHexAgree ==
    (/\ PacketDecoded
     /\ Len(wire) = 2
     /\ HasKey(wire, PKT_DATA_ATTRIBUTE_KEY)
     /\ HasKey(wire, PKT_DATA_HEX_ATTRIBUTE_KEY))
        => \A p \in ValuesOf(wire, PKT_DATA_ATTRIBUTE_KEY),
              h \in ValuesOf(wire, PKT_DATA_HEX_ATTRIBUTE_KEY) :
              \A b \in HexSources(h) :
                  /\ b # p => decoded = Err(MismatchedPacketData)
                  /\ b = p => decoded = Ok(PacketDataAttribute(p))
                  /\ decoded.ok => decoded.val.packet_data = b

\* C4 witness: plain "h" beside the hex form of <<255>> gives
\* MismatchedPacketData.
C4_Witness ==
    /\ PacketDecoded
    /\ wire = <<EventAttribute(PKT_DATA_ATTRIBUTE_KEY, <<104>>),
                EventAttribute(PKT_DATA_HEX_ATTRIBUTE_KEY, <<102, 102>>)>>
    /\ decoded = Err(MismatchedPacketData)

\* C5: a pair list of any length n other than 2 makes the packet data
\* decoder fail with InvalidAttributeCount{expected: 2, actual: n}, whatever
\* the pairs are.
C5_AttributeCount ==
    (PacketDecoded /\ Len(wire) # 2)
        => decoded = Err(InvalidAttributeCount(2, Len(wire)))

\* C5 witness: three pairs, the first two a matching plain and hex pair,
\* give InvalidAttributeCount{2, 3}.
C5_Witness ==
    /\ PacketDecoded
    /\ Len(wire) = 3
    /\ wire[1] = EventAttribute(PKT_DATA_ATTRIBUTE_KEY, <<104>>)
    /\ wire[2] = EventAttribute(PKT_DATA_HEX_ATTRIBUTE_KEY, <<54, 56>>)
    /\ decoded = Err(InvalidAttributeCount(2, 3))

\* "0-0"
ZeroHeightText == <<48, 45, 48>>

\* C6: TimeoutHeightAttribute{Never} is encoded as the pair
\* ("packet_timeout_height", "0-0"), and the timeout height decoder given a
\* pair with that key and the value "0-0" returns Ok(Never).
C6_NeverIsZeroZero ==
    /\ attr = TimeoutHeightAttribute(Never)
        => encoded = Ok(<<EventAttribute(PKT_TIMEOUT_HEIGHT_ATTRIBUTE_KEY, ZeroHeightText)>>)
    /\ (/\ ScalarDecoded
        /\ decoder = "TimeoutHeightAttribute"
        /\ wire = <<EventAttribute(PKT_TIMEOUT_HEIGHT_ATTRIBUTE_KEY, ZeroHeightText)>>)
        => decoded = Ok(TimeoutHeightAttribute(Never))

\* C6 witness: Never was encoded and the timeout height decoder read the pair.
C6_Witness ==
    /\ ScalarDecoded
    /\ attr = TimeoutHeightAttribute(Never)
    /\ decoder = "TimeoutHeightAttribute"
    /\ wire[1].value = ZeroHeightText
    /\ decoded = Ok(TimeoutHeightAttribute(Never))

\* "0123456789abcdef"
LowerHexDigits == <<48, 49, 50, 51, 52, 53, 54, 55, 56, 57, 97, 98, 99, 100, 101, 102>>

\* h is the lower-case hex text of the buffer b.
IsLowerHexOf(h, b) ==
    /\ Len(h) = 2 * Len(b)
    /\ \A i \in 1..Len(b) :
        /\ h[2 * i - 1] = LowerHexDigits[(b[i] \div 16) + 1]
        /\ h[2 * i] = LowerHexDigits[(b[i] % 16) + 1]

\* C7: packet data encode returns, for a buffer b that is valid UTF-8,
\* exactly the pairs (packet_data, b) and (packet_data_hex, lower-case hex
\* of b) in that order; for a buffer that is not valid UTF-8 it fails with
\* NonUtf8PacketData and yields no pairs; the hex conversion never panics.
C7_PacketDataEncode ==
    attr.type = "PacketDataAttribute"
        => /\ encoded # Err(Panic)
           /\ IsUtf8(attr.packet_data)
                => /\ encoded.ok
                   /\ Len(encoded.val) = 2
                   /\ encoded.val[1] = EventAttribute(PKT_DATA_ATTRIBUTE_KEY, attr.packet_data)
                   /\ encoded.val[2].key = PKT_DATA_HEX_ATTRIBUTE_KEY
                   /\ IsLowerHexOf(encoded.val[2].value, attr.packet_data)
                   /\ wire = encoded.val
           /\ ~IsUtf8(attr.packet_data)
                => /\ encoded = Err(NonUtf8PacketData)
                   /\ wire = <<>>

\* C7 witness: the buffer <<104, 255>> is not valid UTF-8 and its encode
\* failed with NonUtf8PacketData.
C7_Witness ==
    /\ phase = "encoded"
    /\ attr = PacketDataAttribute(<<104, 255>>)
    /\ encoded = Err(NonUtf8PacketData)
    /\ wire = <<>>

\* The key literals of the wire contract, spelled out.
WireContract ==
    { <<99, 111, 110, 110, 101, 99, 116, 105, 111, 110, 95, 105, 100>>,
      <<99, 104, 97, 110, 110, 101, 108, 95, 105, 100>>,
      <<112, 111, 114, 116, 95, 105, 100>>,
      <<99, 111, 117, 110, 116, 101, 114, 112, 97, 114, 116, 121, 95, 99, 104, 97, 110, 110, 101, 108, 95, 105, 100>>,
      <<99, 111, 117, 110, 116, 101, 114, 112, 97, 114, 116, 121, 95, 112, 111, 114, 116, 95, 105, 100>>,
      <<118, 101, 114, 115, 105, 111, 110>>,
      <<112, 97, 99, 107, 101, 116, 95, 115, 101, 113, 117, 101, 110, 99, 101>>,
      <<112, 97, 99, 107, 101, 116, 95, 100, 97, 116, 97>>,
      <<112, 97, 99, 107, 101, 116, 95, 100, 97, 116, 97, 95, 104, 101, 120>>,
      <<112, 97, 99, 107, 101, 116, 95, 115, 114, 99, 95, 112, 111, 114, 116>>,
      <<112, 97, 99, 107, 101, 116, 95, 115, 114, 99, 95, 99, 104, 97, 110, 110, 101, 108>>,
      <<112, 97, 99, 107, 101, 116, 95, 100, 115, 116, 95, 112, 111, 114, 116>>,
      <<112, 97, 99, 107, 101, 116, 95, 100, 115, 116, 95, 99, 104, 97, 110, 110, 101, 108>>,
      <<112, 97, 99, 107, 101, 116, 95, 99, 104, 97, 110, 110, 101, 108, 95, 111, 114, 100, 101, 114, 105, 110, 103>>,
      <<112, 97, 99, 107, 101, 116, 95, 116, 105, 109, 101, 111, 117, 116, 95, 104, 101, 105, 103, 104, 116>>,
      <<112, 97, 99, 107, 101, 116, 95, 116, 105, 109, 101, 111, 117, 116, 95, 116, 105, 109, 101, 115, 116, 97, 109, 112>>,
      <<112, 97, 99, 107, 101, 116, 95, 97, 99, 107>>,
      <<112, 97, 99, 107, 101, 116, 95, 97, 99, 107, 95, 104, 101, 120>>,
      <<112, 97, 99, 107, 101, 116, 95, 99, 111, 110, 110, 101, 99, 116, 105, 111, 110>> }

AllTypes == ScalarTypes \cup {"PacketDataAttribute", "AcknowledgementAttribute"}

\* The key or keys each attribute type is registered under.
AttributeKeys(T) ==
    IF T \in ScalarTypes THEN {AttributeKey(T)}
    ELSE IF T = "PacketDataAttribute"
    THEN {PKT_DATA_ATTRIBUTE_KEY, PKT_DATA_HEX_ATTRIBUTE_KEY}
    ELSE {PKT_ACK_ATTRIBUTE_KEY, PKT_ACK_HEX_ATTRIBUTE_KEY}

\* C8: every encode yields only pairs keyed by the literals of its own
\* attribute type, the 19 literals of the wire contract are pairwise
\* distinct and no two types share one; so the pair encoded from a scalar
\* attribute of one type, read by the decoder of another type, fails with
\* InvalidAttributeKey carrying the key of the type that was encoded.  (The
\* facts about the literals do not depend on the state and are stated once,
\* for the idle state.)
C8_KeysAreOwnAndDistinct ==
    /\ phase = "idle"
        => /\ RegistryKeys = WireContract
           /\ Cardinality(RegistryKeys) = 19
           /\ \A T1, T2 \in AllTypes :
                T1 # T2 => AttributeKeys(T1) \cap AttributeKeys(T2) = {}
    /\ (attr.type # "none" /\ encoded.ok)
        => \A i \in 1..Len(encoded.val) : encoded.val[i].key \in AttributeKeys(attr.type)
    /\ (ScalarDecoded /\ attr.type \in ScalarTypes /\ decoder # attr.type)
        => decoded = Err(InvalidAttributeKey(AttributeKey(attr.type)))

\* C8 witness: an encoded counterparty port id read by the port id decoder
\* gives InvalidAttributeKey("counterparty_port_id").
C8_Witness ==
    /\ ScalarDecoded
    /\ attr.type = "CounterpartyPortIdAttribute"
    /\ decoder = "PortIdAttribute"
    /\ decoded = Err(InvalidAttributeKey(COUNTERPARTY_PORT_ID_ATTRIBUTE_KEY))

\* The parser of the domain type an attribute type wraps accepts the text.
ParserAccepts(T, s) ==
    CASE T \in {"PortIdAttribute", "CounterpartyPortIdAttribute", "SrcPortIdAttribute",
                "DstPortIdAttribute"} -> PortId_from_str(s).ok
      [] T \in {"ChannelIdAttribute", "CounterpartyChannelIdAttribute", "SrcChannelIdAttribute",
                "DstChannelIdAttribute"} -> ChannelId_from_str(s).ok
      [] T = "VersionAttribute" -> Version_from_str(s).ok
      [] T = "SequenceAttribute" -> Sequence_from_str(s).ok
      [] T = "ChannelOrderingAttribute" -> Order_from_str(s).ok
      [] T = "TimeoutHeightAttribute" -> Height_from_str(s).ok
      [] T = "TimeoutTimestampAttribute" ->
            parse_u64(s).ok /\ Timestamp_from_nanoseconds(parse_u64(s).val).ok

\* A scalar decoder has read a pair with its own key and a value that is
\* text its domain parser rejects.
ValueRejected ==
    /\ ScalarDecoded
    /\ wire[1].key = AttributeKey(decoder)
    /\ IsUtf8(wire[1].value)
    /\ ~ParserAccepts(decoder, wire[1].value)

\* C9: every scalar decoder given a pair with its own key and a value that
\* is text its domain parser rejects fails with InvalidAttributeValue
\* carrying that value, and with no other error.
C9_ParseFailureIsInvalidAttributeValue ==
    ValueRejected => decoded = Err(InvalidAttributeValue(wire[1].value))

\* C10: for a two-pair list, a plain pair without a hex pair gives Ok of the
\* plain value; a hex pair without a plain pair, its value the hex form of a
\* buffer, gives Ok of that buffer; neither pair gives
\* InvalidAttributeValue with the empty string.
C10_PresenceTable ==
    (PacketDecoded /\ Len(wire) = 2)
        => LET plain == HasKey(wire, PKT_DATA_ATTRIBUTE_KEY)
               hex == HasKey(wire, PKT_DATA_HEX_ATTRIBUTE_KEY)
           IN  /\ (plain /\ ~hex)
                    => \E p \in ValuesOf(wire, PKT_DATA_ATTRIBUTE_KEY) :
                          decoded = Ok(PacketDataAttribute(p))
               /\ (/\ ~plain
                   /\ hex
                   /\ \A h \in ValuesOf(wire, PKT_DATA_HEX_ATTRIBUTE_KEY) : HexSources(h) # {})
                    => \E h \in ValuesOf(wire, PKT_DATA_HEX_ATTRIBUTE_KEY) :
                          \E b \in HexSources(h) : decoded = Ok(PacketDataAttribute(b))
               /\ (~plain /\ ~hex)
                    => decoded = Err(InvalidAttributeValue(<<>>))

\* C10 witness: a foreign pair and the hex pair "68" give Ok of <<104>>.
C10_Witness ==
    /\ PacketDecoded
    /\ wire = <<EventAttribute(PKT_ACK_ATTRIBUTE_KEY, <<104>>),
                EventAttribute(PKT_DATA_HEX_ATTRIBUTE_KEY, <<54, 56>>)>>
    /\ decoded = Ok(PacketDataAttribute(<<104>>))

(***************************************************************************)
(* C11: timeout timestamp                                                  *)
(***************************************************************************)
\* s is the unsigned decimal text of n: digits only, no sign, no leading zero
\* except for "0" itself, and the digits denote n.
IsDecimalOf(s, n) ==
    /\ s # <<>>
    /\ \A i \in 1..Len(s) : IsDigit(s[i])
    /\ (Len(s) > 1 => s[1] # 48)
    /\ ~ExceedsU64(s)
    /\ DigitsValue(s, 0) = n

\* A text value that is not an unsigned integer in range, or whose number the
\* timestamp constructor rejects.
TimestampTextRejected(s) ==
    \/ ~parse_u64(s).ok
    \/ ~Timestamp_from_nanoseconds(parse_u64(s).val).ok

\* C11: encoding a timeout timestamp gives the single pair
\* (packet_timeout_timestamp, unsigned decimal text of the nanosecond count);
\* decoding that pair gives back the attribute; and decoding a pair under that
\* key whose text value is not an unsigned integer in range, or is rejected by
\* the timestamp constructor, fails with InvalidAttributeValue carrying the
\* value text itself.
C11_TimeoutTimestamp ==
    /\ (phase \in {"encoded", "decoded"} /\ attr.type = "TimeoutTimestampAttribute") =>
          /\ encoded.ok
          /\ Len(encoded.val) = 1
          /\ key_bytes(encoded.val[1]) = PKT_TIMEOUT_TIMESTAMP_ATTRIBUTE_KEY
          /\ IsDecimalOf(value_bytes(encoded.val[1]),
                         Timestamp_nanoseconds(attr.timeout_timestamp))
    /\ (ScalarDecoded /\ attr.type = "TimeoutTimestampAttribute"
           /\ decoder = "TimeoutTimestampAttribute") =>
          decoded = Ok(attr)
    /\ (ScalarDecoded /\ decoder = "TimeoutTimestampAttribute"
           /\ key_bytes(wire[1]) = PKT_TIMEOUT_TIMESTAMP_ATTRIBUTE_KEY
           /\ IsUtf8(value_bytes(wire[1]))
           /\ TimestampTextRejected(value_bytes(wire[1]))) =>
          decoded = Err(InvalidAttributeValue(value_bytes(wire[1])))

\* A two-digit timestamp has made the round trip, ...
C11_Witness ==
    /\ ScalarDecoded
    /\ attr = TimeoutTimestampAttribute(MaxNumber)
    /\ decoder = "TimeoutTimestampAttribute"
    /\ Len(value_bytes(wire[1])) = 2
    /\ decoded = Ok(attr)

\* ... a non-numeric value has been rejected with its own text, ...
C11_WitnessNotNumber ==
    /\ ScalarDecoded
    /\ decoder = "TimeoutTimestampAttribute"
    /\ key_bytes(wire[1]) = PKT_TIMEOUT_TIMESTAMP_ATTRIBUTE_KEY
    /\ value_bytes(wire[1]) = <<49, 97>>
    /\ decoded = Err(InvalidAttributeValue(<<49, 97>>))

\* ... and so has 2^64, one above the largest u64.
C11_WitnessOutOfRange ==
    /\ ScalarDecoded
    /\ decoder = "TimeoutTimestampAttribute"
    /\ key_bytes(wire[1]) = PKT_TIMEOUT_TIMESTAMP_ATTRIBUTE_KEY
    /\ Len(value_bytes(wire[1])) = Len(U64MaxText)
    /\ decoded = Err(InvalidAttributeValue(value_bytes(wire[1])))

(***************************************************************************)
(* C12: timeout height At(h)                                               *)
(***************************************************************************)
\* s is the "revision-height" text of h: the unsigned decimal text of the
\* revision number, one '-', the unsigned decimal text of the revision height.
IsHeightTextOf(s, h) ==
    \E i \in 1..Len(s) :
        /\ s[i] = 45
        /\ IsDecimalOf(SubSeq(s, 1, i - 1), h.revision_number)
        /\ IsDecimalOf(SubSeq(s, i + 1, Len(s)), h.revision_height)

\* An At(h) timeout height has been encoded.
AtEncoded ==
    /\ phase \in {"encoded", "decoded"}
    /\ attr.type = "TimeoutHeightAttribute"
    /\ attr.timeout_height.tag = "At"

\* C12: encoding TimeoutHeightAttribute{At(h)} for a valid height h gives the
\* pair (packet_timeout_height, "revision-height" text of h); that text is
\* never "0-0", the wire value of Never; and the timeout height decoder reads
\* the pair back as Ok(TimeoutHeightAttribute{At(h)}), never as Never.
C12_AtHeightRoundTrip ==
    /\ AtEncoded =>
          /\ encoded.ok
          /\ Len(encoded.val) = 1
          /\ key_bytes(encoded.val[1]) = PKT_TIMEOUT_HEIGHT_ATTRIBUTE_KEY
          /\ IsHeightTextOf(value_bytes(encoded.val[1]), attr.timeout_height.height)
          /\ value_bytes(encoded.val[1]) # ZeroHeightText
          /\ value_bytes(encoded.val[1]) #
                value_bytes(TimeoutHeightAttribute_into(TimeoutHeightAttribute(Never)))
    /\ (AtEncoded /\ ScalarDecoded /\ decoder = "TimeoutHeightAttribute") =>
          /\ decoded = Ok(attr)
          /\ decoded.val.timeout_height # Never

\* C12 witness: At(0-1), the valid height closest to the reserved form, was
\* encoded as "0-1" and decoded back to At(0-1).
C12_Witness ==
    /\ ScalarDecoded
    /\ attr = TimeoutHeightAttribute(At(Height(0, 1)))
    /\ decoder = "TimeoutHeightAttribute"
    /\ value_bytes(wire[1]) = <<48, 45, 49>>
    /\ decoded = Ok(TimeoutHeightAttribute(At(Height(0, 1))))

(***************************************************************************)
(* C13: acknowledgement encode                                             *)
(***************************************************************************)
\* The results r of the acknowledgement encoder and p of the packet data
\* encoder agree: both fail with the same error, or both succeed with lists
\* of the same length whose values are equal pair by pair, r keyed
\* packet_ack, packet_ack_hex and p keyed packet_data, packet_data_hex.
EncodersAgree(r, p) ==
    /\ r.ok = p.ok
    /\ ~r.ok => r = p
    /\ r.ok =>
          /\ Len(r.val) = Len(p.val)
          /\ \A i \in 1..Len(r.val) : value_bytes(r.val[i]) = value_bytes(p.val[i])
          /\ <<key_bytes(r.val[1]), key_bytes(r.val[2])>> =
                <<PKT_ACK_ATTRIBUTE_KEY, PKT_ACK_HEX_ATTRIBUTE_KEY>>
          /\ <<key_bytes(p.val[1]), key_bytes(p.val[2])>> =
                <<PKT_DATA_ATTRIBUTE_KEY, PKT_DATA_HEX_ATTRIBUTE_KEY>>

\* C13: acknowledgement encode over bytes b returns, when b is valid UTF-8,
\* exactly the pairs (packet_ack, b) then (packet_ack_hex, lower-case hex of
\* b); when b is not valid UTF-8 it fails with NonUtf8PacketData; and on the
\* same bytes the acknowledgement and packet data encoders agree on success
\* or failure and on the pair values, differing only in the keys.
C13_AcknowledgementEncode ==
    /\ attr.type = "AcknowledgementAttribute" =>
          /\ IsUtf8(attr.acknowledgement) =>
                /\ encoded.ok
                /\ Len(encoded.val) = 2
                /\ encoded.val[1] = EventAttribute(PKT_ACK_ATTRIBUTE_KEY, attr.acknowledgement)
                /\ key_bytes(encoded.val[2]) = PKT_ACK_HEX_ATTRIBUTE_KEY
                /\ IsLowerHexOf(value_bytes(encoded.val[2]), attr.acknowledgement)
          /\ ~IsUtf8(attr.acknowledgement) => encoded = Err(NonUtf8PacketData)
          /\ EncodersAgree(encoded,
                PacketDataAttribute_try_into(PacketDataAttribute(attr.acknowledgement)))
    /\ (attr.type = "PacketDataAttribute" /\ phase = "encoded") =>
          EncodersAgree(
              AcknowledgementAttribute_try_into(AcknowledgementAttribute(attr.packet_data)),
              encoded)

\* C13 witness: the two-byte text <<195, 169>> was encoded as an
\* acknowledgement into (packet_ack, text) and (packet_ack_hex, "c3a9").
C13_Witness ==
    /\ phase = "encoded"
    /\ attr = AcknowledgementAttribute(<<195, 169>>)
    /\ encoded = Ok(<<EventAttribute(PKT_ACK_ATTRIBUTE_KEY, <<195, 169>>),
                      EventAttribute(PKT_ACK_HEX_ATTRIBUTE_KEY, <<99, 51, 97, 57>>)>>)

\* A buffer that is not valid UTF-8 was refused as an acknowledgement.
C13_WitnessNonUtf8 ==
    /\ phase = "encoded"
    /\ attr = AcknowledgementAttribute(<<104, 255>>)
    /\ encoded = Err(NonUtf8PacketData)

(***************************************************************************)
(* C14: connection id and packet connection id                             *)
(***************************************************************************)
\* The scalar attribute types that have the From conversion into a pair and
\* no TryFrom<abci::EventAttribute>.
EncodeOnlyTypes == ScalarTypes \ DecodableTypes

\* C14: the connection id and the packet connection id attribute each have a
\* decode from a single pair, and decoding the pair that encoding produced
\* returns Ok of the attribute that was encoded.
C14_ConnectionIdDecode ==
    (phase = "encoded" /\ attr.type \in {"ConnectionIdAttribute", "PacketConnectionIdAttribute"})
        => /\ attr.type \in DecodableTypes
           /\ TryFrom(attr.type, wire[1]) = Ok(attr)

\* Every decoder there is refuses the pair of an encoded connection id: its
\* key is the key of none of them.
C14_NoDecoderReadsConnectionId ==
    (phase = "encoded" /\ attr.type \in EncodeOnlyTypes)
        => \A T \in DecodableTypes :
              TryFrom(T, wire[1]) = Err(InvalidAttributeKey(key_bytes(wire[1])))

(***************************************************************************)
(* C15: order of the two pairs                                             *)
(***************************************************************************)
\* The packet data decoder has read a two-pair list.
TwoPairsDecoded == PacketDecoded /\ Len(wire) = 2

\* C15: decoding a two-pair list [p, q] and decoding [q, p] return the same
\* result, Ok or error, whatever the keys and values of p and q are, the
\* case of two pairs with the same key and different values included.
C15_OrderIndependent ==
    TwoPairsDecoded => decoded = PacketDataAttribute_try_from(<<wire[2], wire[1]>>)

\* What does hold: the order of two pairs with different keys does not matter.
C15_OrderIndependentDistinctKeys ==
    (TwoPairsDecoded /\ key_bytes(wire[1]) # key_bytes(wire[2]))
        => decoded = PacketDataAttribute_try_from(<<wire[2], wire[1]>>)

\* Two plain pairs with different values: the decoder returned the first.
C15_DuplicateKeyFirstWins ==
    /\ TwoPairsDecoded
    /\ wire = <<EventAttribute(PKT_DATA_ATTRIBUTE_KEY, <<104>>),
                EventAttribute(PKT_DATA_ATTRIBUTE_KEY, <<104, 104>>)>>
    /\ decoded = Ok(PacketDataAttribute(<<104>>))
    /\ PacketDataAttribute_try_from(<<wire[2], wire[1]>>) = Ok(PacketDataAttribute(<<104, 104>>))

(***************************************************************************)
(* C16: malformed hex                                                      *)
(***************************************************************************)
\* h is the hex encoding of no byte string: its length is odd, or one of its
\* characters is not a hex digit, or it is not text at all.
MalformedHex(h) == ~IsUtf8(h) \/ ~hex_decode(h).ok

\* The two-pair list carries a hex pair, and the first hex pair (the one the
\* lookup returns) is malformed.
MalformedHexDecoded ==
    /\ TwoPairsDecoded
    /\ HasKey(wire, PKT_DATA_HEX_ATTRIBUTE_KEY)
    /\ \A h \in ValuesOf(wire, PKT_DATA_HEX_ATTRIBUTE_KEY) : MalformedHex(h)

\* C16: in a two-pair list with a pair keyed packet_data_hex whose value is
\* the hex encoding of no byte string (odd length, a non-hex character, or
\* bytes that are not text), decode fails with InvalidAttributeValue, whether
\* or not a plain pair is present: never Ok of the plain bytes, never
\* MismatchedPacketData.
C16_MalformedHexRejected ==
    MalformedHexDecoded => decoded = Err(InvalidAttributeValue(EmptyString))

\* What does hold: a hex value that is text but malformed (odd length or a
\* non-hex character) is rejected with or without a plain pair, and a hex
\* value that is not text is rejected when there is no plain pair.
C16_TextualMalformedHexRejected ==
    (/\ MalformedHexDecoded
     /\ \/ \A h \in ValuesOf(wire, PKT_DATA_HEX_ATTRIBUTE_KEY) : IsUtf8(h)
        \/ ~HasKey(wire, PKT_DATA_ATTRIBUTE_KEY))
        => decoded = Err(InvalidAttributeValue(EmptyString))

\* A plain pair beside a hex pair whose value is not text: the decoder
\* returned the plain bytes.
C16_NonTextHexIgnored ==
    /\ TwoPairsDecoded
    /\ wire = <<EventAttribute(PKT_DATA_ATTRIBUTE_KEY, <<104>>),
                EventAttribute(PKT_DATA_HEX_ATTRIBUTE_KEY, <<255>>)>>
    /\ decoded = Ok(PacketDataAttribute(<<104>>))

(***************************************************************************)
(* C17: a pair under a foreign key                                         *)
(***************************************************************************)
\* The key belongs to the packet data attribute.
IsPacketDataKey(k) == k \in {PKT_DATA_ATTRIBUTE_KEY, PKT_DATA_HEX_ATTRIBUTE_KEY}

\* C17 as stated: a two-pair list containing a pair whose key is neither
\* packet_data nor packet_data_hex never decodes to Ok, whatever the other
\* pair is.
C17_ForeignKeyRejected ==
    (TwoPairsDecoded /\ \E i \in 1..2 : ~IsPacketDataKey(key_bytes(wire[i])))
        => ~decoded.ok

\* C17 as amended: a pair whose key is neither packet_data nor
\* packet_data_hex is skipped, not rejected.  A two-pair list with such a
\* pair decodes as the other pair alone decides: a plain pair gives Ok of
\* its bytes, a hex pair whose value is the hex form of a buffer gives Ok of
\* that buffer, a hex pair with any other value gives InvalidAttributeValue,
\* and a second foreign pair gives InvalidAttributeValue.
C17_ForeignKeyIgnored ==
    \A i \in 1..2 :
        (TwoPairsDecoded /\ ~IsPacketDataKey(key_bytes(wire[i])))
            => LET other == wire[3 - i]
                   v == value_bytes(other)
               IN  /\ key_bytes(other) = PKT_DATA_ATTRIBUTE_KEY
                        => decoded = Ok(PacketDataAttribute(v))
                   /\ (key_bytes(other) = PKT_DATA_HEX_ATTRIBUTE_KEY /\ HexSources(v) # {})
                        => \E b \in HexSources(v) : decoded = Ok(PacketDataAttribute(b))
                   /\ (key_bytes(other) = PKT_DATA_HEX_ATTRIBUTE_KEY /\ HexSources(v) = {})
                        => decoded = Err(InvalidAttributeValue(<<>>))
                   /\ ~IsPacketDataKey(key_bytes(other))
                        => decoded = Err(InvalidAttributeValue(<<>>))

\* C17 witness: a plain pair beside a packet_ack pair; the decoder returned
\* the plain bytes.
C17_Witness ==
    /\ TwoPairsDecoded
    /\ wire = <<EventAttribute(PKT_DATA_ATTRIBUTE_KEY, <<104>>),
                EventAttribute(PKT_ACK_ATTRIBUTE_KEY, <<104>>)>>
    /\ decoded = Ok(PacketDataAttribute(<<104>>))
=============================================================================
